---- MODULE Spec2Model ----
(***************************************************************************)
(* Space Dystopia: the session of each checkpoint (main, the Game          *)
(* constructor and the menu loop of Game::run), the combat encounter       *)
(* (Game::handleCombat of checkpoint3.cpp and checkpoint5.cpp), the        *)
(* CombatEntity hierarchy, Stat / Character and the Quest tracker.         *)
(*                                                                         *)
(* Six specifications share the variables:                                 *)
(*   SpecCombat     handleCombat as a unit: one enemy object, fought in    *)
(*                  repeated encounters (the enemy is shared between       *)
(*                  calls, the combat proxy is rebuilt by every call).     *)
(*                  The enemy is one that initializeEnemies builds, or an  *)
(*                  Enemy built with other constructor arguments           *)
(*                  (TestEnemies).                                         *)
(*   SpecEntity     takeDamage / gainExperience called on a CombatPlayer   *)
(*                  and an Enemy with arbitrary arguments.                 *)
(*   SpecCharacter  Stat::modify and Character::takeDamage called on a     *)
(*                  Character with arbitrary arguments.                    *)
(*   SpecQuest      addObjective / updateObjective called on one Quest.    *)
(*   SpecGame       the program of checkpoint 1, 2, 3 or 5 from main to    *)
(*                  its exit, one menu input per step.                     *)
(*   SpecMidGame    the menu loop of checkpoint 2, 3 or 5 continued from   *)
(*                  the state that a fixed sequence of menu inputs leaves  *)
(*                  behind (the sessions that are too long for SpecGame).  *)
(***************************************************************************)
EXTENDS Integers, Sequences, FiniteSets

VARIABLES
    cp,            \* which checkpoint's program is running: 1, 2, 3 or 5
    pc,            \* "idle": outside handleCombat; "loop": at the top of a
                   \* round of its while loop; "returned": handleCombat returned
    enemy,         \* the CombatEntity passed to handleCombat (shared_ptr)
    playerCombat,  \* the CombatPlayer proxy local to handleCombat
    player,        \* the overworld Player owned by Game
    locals,        \* choice and playerDamage of the last round, and whether
                   \* the round reached the enemy turn
    rounds,        \* rounds executed by the current handleCombat call
    quest,         \* a Quest: objectives and the completed flag
    updated,       \* history: indices of objectives updateProgress has run on
    call,          \* the last member function called on the unit under test,
                   \* or the last menu input read by Game::run
    game,          \* the fields of the Game object
    prog           \* the program around it: phase of main, exit code, the
                   \* last diagnostic printed, menu turns taken so far (and
                   \* how many of them a replayed script took)

vars == <<cp, pc, enemy, playerCombat, player, locals, rounds, quest, updated,
          call, game, prog>>

----------------------------------------------------------------------------
(* Bounds *)

MaxRounds == 12          \* cap on the round counter of one encounter
MaxChoice == 2           \* combat menu input is drawn from 1..MaxChoice
MaxDamage == 12          \* takeDamage arguments are drawn from -2..MaxDamage
MaxLevel == 3            \* gainExperience is not called at this level or above
MaxObjectives == 2       \* addObjective is not called on a quest this long
MaxValue == 2            \* targets and updateObjective values are drawn
                         \* from -1..MaxValue

----------------------------------------------------------------------------
(* std::max / std::min *)

Max(a, b) == IF a >= b THEN a ELSE b
Min(a, b) == IF a <= b THEN a ELSE b

----------------------------------------------------------------------------
(* Stat<int> *)

Stat(initial) == [current |-> initial, maximum |-> initial]

StatModifyNoFloor(s, amount) ==
    [s EXCEPT !.current = Min(s.maximum, s.current + amount)]

StatModify(s, amount) ==
    LET c1 == Min(s.maximum, s.current + amount)
    IN  [s EXCEPT !.current = Max(0, c1)]

----------------------------------------------------------------------------
(* CombatEntity, CombatPlayer, Enemy *)

TakeDamageSwapped(e, damage) ==
    [e EXCEPT !.health = Max(0, e.health - Max(0, e.defense - damage))]

TakeDamageNoInnerClamp(e, damage) ==
    [e EXCEPT !.health = Max(0, e.health - (damage - e.defense))]

TakeDamageMagnitude(e, damage) ==
    LET reduced == damage - e.defense
    IN  [e EXCEPT !.health =
            Max(0, e.health - (IF reduced < 0 THEN -reduced ELSE reduced))]

TakeDamage(e, damage) ==
    [e EXCEPT !.health = Max(0, e.health - Max(0, damage - e.defense))]

IsAlive(e) == e.health > 0

CombatPlayer ==
    [name |-> "player", health |-> 100, attack |-> 15, defense |-> 5,
     level |-> 1, experience |-> 0]

PlayerRolls == -2 .. 2
EnemyRolls == -1 .. 1

CalculateDamage(e, roll) == e.attack + roll

LevelUp(p) ==
    [p EXCEPT !.level = @ + 1, !.health = @ + 10, !.attack = @ + 5,
              !.defense = @ + 3, !.experience = 0]

GainExperienceCarryOver(p, exp) ==
    LET p1 == [p EXCEPT !.experience = @ + exp]
    IN  IF p1.experience >= p1.level * 100
        THEN [LevelUp(p1) EXCEPT !.experience = p1.experience - p1.level * 100]
        ELSE p1

GainExperience(p, exp) ==
    LET p1 == [p EXCEPT !.experience = @ + exp]
    IN  IF p1.experience >= p1.level * 100 THEN LevelUp(p1) ELSE p1

Enemy(n, h, a, d) == [name |-> n, health |-> h, attack |-> a, defense |-> d]

SecurityBotTougher == Enemy("Security Bot", 51, 10, 3)

SecurityBot == Enemy("Security Bot", 50, 10, 3)
SurveillanceDrone == Enemy("Surveillance Drone", 30, 8, 2)
EliteGuardBot == Enemy("Elite Guard Bot", 75, 15, 5)

\* initializeEnemies of each checkpoint
InitializeEnemies(c) ==
    IF c = 5 THEN {SecurityBot, EliteGuardBot}
    ELSE {SecurityBot, SurveillanceDrone}

\* Enemy objects the constructor accepts but initializeEnemies does not build.
TestEnemies == {Enemy("Heavy Mech", 40, 60, 8)}

----------------------------------------------------------------------------
(* Character / Player (overworld) *)

Player(inv) ==
    [health |-> Stat(100), energy |-> Stat(100),
     experience |-> 5 * Len(inv), questFlags |-> {}, inventory |-> inv,
     totalSteps |-> 0, itemsCollected |-> Len(inv), discovered |-> {}]

CharacterTakeDamageAdds(p, damage) ==
    IF damage < 0 THEN p
    ELSE [p EXCEPT !.health = StatModify(@, damage)]

CharacterTakeDamage(p, damage) ==
    IF damage < 0 THEN p
    ELSE [p EXCEPT !.health = StatModify(@, -damage)]

NoError == [report |-> "none", thrown |-> "none"]

TakeDamageErrorRethrown(c, damage) ==
    IF damage < 0
    THEN [report |-> "Error in takeDamage: Damage cannot be negative!",
          thrown |-> "Damage cannot be negative!"]
    ELSE NoError

\* What a takeDamage call prints to std::cerr and what it throws to its
\* caller.  Checkpoint 1 throws std::invalid_argument and has no handler;
\* checkpoints 2, 3 and 5 catch it inside takeDamage and print it.
TakeDamageError(c, damage) ==
    IF damage >= 0 THEN NoError
    ELSE IF c = 1
    THEN [report |-> "none", thrown |-> "Damage cannot be negative!"]
    ELSE [report |-> "Error in takeDamage: Damage cannot be negative!",
          thrown |-> "none"]

PlayerGainExperienceAssign(p, exp) ==
    IF exp > 0 THEN [p EXCEPT !.experience = exp] ELSE p

PlayerGainExperience(p, exp) ==
    IF exp > 0 THEN [p EXCEPT !.experience = @ + exp] ELSE p

SetQuestFlagOverwrites(p, flag) == [p EXCEPT !.questFlags = {flag}]

SetQuestFlag(p, flag) == [p EXCEPT !.questFlags = @ \cup {flag}]

HasQuestFlag(p, flag) == flag \in p.questFlags

\* Inventories the player can hold when combat starts (each item is picked
\* up at its location; every pickup awards 5 experience).  Checkpoint 3 has
\* no EMP Device.
Inventories(c) ==
    IF c = 5
    THEN {<<>>, <<"Datapad">>, <<"EMP Device">>}
    ELSE {<<>>}

----------------------------------------------------------------------------
(* Location and the fields of Game *)

Locations == 0 .. 3

RemoveItemKeepsAll(items, itemName) == items

\* Location::removeItem: erases every item of that name
RemoveItem(items, itemName) == SelectSeq(items, LAMBDA n : n # itemName)

\* The item lists that initializeLocations builds, by location index.
\* Checkpoint 1 has no Item class.
InitializeLocations(c) ==
    IF c = 5
    THEN [l \in Locations |->
             CASE l = 0 -> <<"Datapad">>
               [] l = 1 -> <<"Keycard">>
               [] l = 2 -> <<"EMP Device">>
               [] l = 3 -> <<"Spacesuit">>]
    ELSE IF c \in {2, 3}
    THEN [l \in Locations |->
             CASE l = 0 -> <<"Datapad", "Keycard">>
               [] l = 3 -> <<"Spacesuit">>
               [] OTHER -> <<>>]
    ELSE [l \in Locations |-> <<>>]

\* The Game object after its constructor.  A field that a checkpoint's Game
\* does not declare keeps the value given here.
NewGame(c) ==
    [currentLocation |-> 0, items |-> InitializeLocations(c),
     gameOver |-> FALSE, hasEscaped |-> FALSE, chapter |-> 1,
     hasMonolith |-> FALSE, hasAIAccess |-> FALSE, player |-> "set"]

\* Before the constructor has run there is no Player (the unique_ptr is
\* null) and no location has been built.
NoGame(c) ==
    [NewGame(c) EXCEPT !.player = "null",
                       !.items = [l \in Locations |-> <<>>]]

\* The program outside Game::run (the unit specifications stay here).
NoProg ==
    [phase |-> "unit", exitCode |-> -1, report |-> "none", thrown |-> "none",
     turns |-> 0, replayed |-> 0, after |-> "none", name |-> ""]

\* The Game in which handleCombat is called: the player stands in the
\* Terminal Room and the items of the inventory were taken from their
\* locations.
GameInCombat(c, inv) ==
    [NewGame(c) EXCEPT
        !.currentLocation = 1,
        !.items = [l \in Locations |->
                      SelectSeq(InitializeLocations(c)[l],
                                LAMBDA n : \A i \in 1 .. Len(inv) : inv[i] # n)]]

\* The player of that Game: one move per location visited on the way.
PlayerInCombat(inv) ==
    [Player(inv) EXCEPT
        !.totalSteps = IF inv = <<"EMP Device">> THEN 2 ELSE 1]

----------------------------------------------------------------------------
(* Game::handleCombat *)

WinExp3 == 25
WinExp5 == 50
LossPenalty == 50
DefeatedFlag == "security_defeated"

NoLocals ==
    [choice |-> 0, playerDamage |-> 0, enemyTurn |-> FALSE]

NoCall == [op |-> "none", index |-> 0, arg |-> 0]

EmptyQuest == [objectives |-> <<>>, completed |-> FALSE]

LoopConditionPlayerOnly(e, p) == IsAlive(p)

LoopConditionEnemyOnly(e, p) == IsAlive(e)

\* while (enemy->isAlive() && playerCombat->isAlive())
LoopCondition(e, p) == IsAlive(e) /\ IsAlive(p)

\* Entry of handleCombat: build the proxy and test the loop condition.
StartCombat ==
    /\ pc \in {"idle", "returned"}
    /\ playerCombat' = CombatPlayer
    /\ rounds' = 0
    /\ locals' = NoLocals
    /\ pc' = IF LoopCondition(enemy, CombatPlayer) THEN "loop" ELSE "returned"
    /\ UNCHANGED <<cp, enemy, player, quest, updated, call, game, prog>>

\* One iteration of the loop of checkpoint 3, up to the next loop test.
Round3(roll, eroll) ==
    /\ cp = 3
    /\ pc = "loop"
    /\ rounds < MaxRounds
    /\ LET playerDamage == CalculateDamage(playerCombat, roll)
           e1 == TakeDamage(enemy, playerDamage)
           enemyDamage == CalculateDamage(e1, eroll)
           p1 == TakeDamage(playerCombat, enemyDamage)
       IN  /\ enemy' = e1
           /\ rounds' = rounds + 1
           /\ IF ~IsAlive(e1)
              THEN /\ player' = PlayerGainExperience(player, WinExp3)
                   /\ playerCombat' = playerCombat
                   /\ locals' = [choice |-> 0,
                                 playerDamage |-> playerDamage,
                                 enemyTurn |-> FALSE]
                   /\ pc' = "returned"
              ELSE /\ playerCombat' = p1
                   /\ locals' = [choice |-> 0,
                                 playerDamage |-> playerDamage,
                                 enemyTurn |-> TRUE]
                   /\ IF ~IsAlive(p1)
                      THEN /\ player' = CharacterTakeDamage(player, LossPenalty)
                           /\ pc' = "returned"
                      ELSE /\ player' = player
                           /\ pc' = IF LoopCondition(e1, p1)
                                    THEN "loop" ELSE "returned"
    /\ UNCHANGED <<cp, quest, updated, call, game, prog>>

Round5UsesUpItem(choice, roll, eroll) ==
    /\ cp = 5
    /\ pc = "loop"
    /\ rounds < MaxRounds
    /\ LET playerDamage ==
               IF choice = 2 /\ Len(player.inventory) > 0
               THEN CalculateDamage(playerCombat, roll) * 2
               ELSE CalculateDamage(playerCombat, roll)
           e1 == TakeDamage(enemy, playerDamage)
           enemyDamage == CalculateDamage(e1, eroll)
           p1 == TakeDamage(playerCombat, enemyDamage)
       IN  /\ enemy' = e1
           /\ rounds' = rounds + 1
           /\ player' =
                  LET p0 == IF choice = 2 /\ Len(player.inventory) > 0
                            THEN [player EXCEPT !.inventory = Tail(@)]
                            ELSE player
                  IN  IF ~IsAlive(e1)
                      THEN PlayerGainExperience(
                               SetQuestFlag(p0, DefeatedFlag), WinExp5)
                      ELSE p0
           /\ playerCombat' = p1
           /\ locals' = [choice |-> choice,
                         playerDamage |-> playerDamage,
                         enemyTurn |-> TRUE]
           /\ pc' = IF LoopCondition(e1, p1) THEN "loop" ELSE "returned"
    /\ UNCHANGED <<cp, quest, updated, call, game, prog>>

Round5HurtsPlayer(choice, roll, eroll) ==
    /\ cp = 5
    /\ pc = "loop"
    /\ rounds < MaxRounds
    /\ LET playerDamage ==
               IF choice = 2 /\ Len(player.inventory) > 0
               THEN CalculateDamage(playerCombat, roll) * 2
               ELSE CalculateDamage(playerCombat, roll)
           e1 == TakeDamage(enemy, playerDamage)
           enemyDamage == CalculateDamage(e1, eroll)
           p1 == TakeDamage(playerCombat, enemyDamage)
       IN  /\ enemy' = e1
           /\ rounds' = rounds + 1
           /\ player' = CharacterTakeDamage(
                            IF ~IsAlive(e1)
                            THEN PlayerGainExperience(
                                     SetQuestFlag(player, DefeatedFlag),
                                     WinExp5)
                            ELSE player,
                            enemyDamage)
           /\ playerCombat' = p1
           /\ locals' = [choice |-> choice,
                         playerDamage |-> playerDamage,
                         enemyTurn |-> TRUE]
           /\ pc' = IF LoopCondition(e1, p1) THEN "loop" ELSE "returned"
    /\ UNCHANGED <<cp, quest, updated, call, game, prog>>

\* One iteration of the loop of checkpoint 5, up to the next loop test.
Round5(choice, roll, eroll) ==
    /\ cp = 5
    /\ pc = "loop"
    /\ rounds < MaxRounds
    /\ LET playerDamage ==
               IF choice = 2 /\ Len(player.inventory) > 0
               THEN CalculateDamage(playerCombat, roll) * 2
               ELSE CalculateDamage(playerCombat, roll)
           e1 == TakeDamage(enemy, playerDamage)
           enemyDamage == CalculateDamage(e1, eroll)
           p1 == TakeDamage(playerCombat, enemyDamage)
       IN  /\ enemy' = e1
           /\ rounds' = rounds + 1
           /\ player' = IF ~IsAlive(e1)
                        THEN PlayerGainExperience(
                                 SetQuestFlag(player, DefeatedFlag), WinExp5)
                        ELSE player
           /\ playerCombat' = p1
           /\ locals' = [choice |-> choice,
                         playerDamage |-> playerDamage,
                         enemyTurn |-> TRUE]
           /\ pc' = IF LoopCondition(e1, p1) THEN "loop" ELSE "returned"
    /\ UNCHANGED <<cp, quest, updated, call, game, prog>>

Round ==
    \/ \E roll \in PlayerRolls, eroll \in EnemyRolls : Round3(roll, eroll)
    \/ \E choice \in 1 .. MaxChoice, roll \in PlayerRolls, eroll \in EnemyRolls :
           Round5(choice, roll, eroll)

InitCombat ==
    /\ cp \in {3, 5}
    /\ pc = "idle"
    /\ enemy \in InitializeEnemies(cp) \cup TestEnemies
    /\ playerCombat = CombatPlayer
    /\ \E inv \in Inventories(cp) :
           /\ player = PlayerInCombat(inv)
           /\ game = GameInCombat(cp, inv)
    /\ locals = NoLocals
    /\ rounds = 0
    /\ quest = EmptyQuest
    /\ updated = {}
    /\ call = NoCall
    /\ prog = NoProg

NextCombat == StartCombat \/ Round

SpecCombat == InitCombat /\ [][NextCombat]_vars

----------------------------------------------------------------------------
(* Properties of the combat encounter *)

GameEnemyNames == {e.name : e \in InitializeEnemies(3) \cup InitializeEnemies(5)}

\* The step is a round in which the player's hit brings the enemy to 0.
KillRound == pc = "loop" /\ IsAlive(enemy) /\ ~IsAlive(enemy')

\* C1 (as claimed): in checkpoints 3 and 5, a round in which the player's hit
\* brings the enemy's health to 0 ends the encounter without the enemy turn:
\* no enemy damage is applied and the proxy's health is as before the round
\* (stated for the enemies that initializeEnemies builds).
C1_KillRoundHasNoRetaliation ==
    [][(KillRound /\ enemy.name \in GameEnemyNames) =>
          /\ pc' = "returned"
          /\ ~locals'.enemyTurn
          /\ playerCombat'.health = playerCombat.health]_vars

\* C2 (as claimed): in checkpoint 5 an encounter whose proxy is at 0 health
\* while the enemy is alive never leaves the round loop.
C2_LosingPlayerNeverLeavesLoop ==
    (cp = 5 /\ pc # "idle" /\ ~IsAlive(playerCombat) /\ IsAlive(enemy))
        => pc = "loop"

\* C2 (amended): in checkpoint 5 the round loop is left as soon as the enemy
\* or the proxy is at 0 health, and no sooner; a lost encounter applies no
\* penalty to the overworld player's health.
C2_LoopExitsOnEitherDeath ==
    cp = 5 =>
        /\ pc = "loop" => (IsAlive(enemy) /\ IsAlive(playerCombat))
        /\ pc = "returned" => (~IsAlive(enemy) \/ ~IsAlive(playerCombat))
        /\ player.health.current = player.health.maximum

C2_Witness ==
    cp = 5 /\ pc = "returned" /\ rounds > 0
           /\ playerCombat.health = 0 /\ IsAlive(enemy)

\* C3: every encounter against an enemy that initializeEnemies builds has
\* returned after at most 10 rounds, whatever the rolls and the choices (a
\* round is pending only while fewer than 10 were run, and every round adds
\* one), and on return the enemy or the proxy is at 0 health.
C3_EncounterTerminates ==
    enemy.name \in GameEnemyNames =>
        /\ rounds <= 10
        /\ pc = "loop" => rounds < 10
        /\ pc = "returned" => (enemy.health = 0 \/ playerCombat.health = 0)

C3_Witness ==
    /\ enemy.name = "Elite Guard Bot"
    /\ pc = "returned"
    /\ rounds = 10
    /\ enemy.health = 0

\* The damage dealt in the last round is twice a possible attack roll.
Doubled ==
    \E roll \in PlayerRolls :
        locals.playerDamage = 2 * CalculateDamage(CombatPlayer, roll)

HasItem(p, item) == \E i \in 1 .. Len(p.inventory) : p.inventory[i] = item

\* C9 (as claimed): in a checkpoint 5 round the damage roll is doubled exactly
\* when the choice was 2 and the EMP Device is in the player's inventory
\* (stated for the enemies that initializeEnemies builds).
C9_DoubledOnlyWithEMP ==
    (cp = 5 /\ rounds > 0 /\ enemy.name \in GameEnemyNames) =>
        (Doubled <=> (locals.choice = 2 /\ HasItem(player, "EMP Device")))

\* C10 (as claimed): a kill round awards the win experience (25 / 50) to the
\* overworld player and sets an enemy-defeated quest flag on it.
C10_KillAwardsExpAndFlag ==
    [][KillRound =>
          /\ player'.experience =
                 player.experience + (IF cp = 3 THEN WinExp3 ELSE WinExp5)
          /\ HasQuestFlag(player', DefeatedFlag)]_vars

\* C10 (amended): a kill round awards the win experience (25 in checkpoint 3,
\* 50 in checkpoint 5) and no other step of handleCombat changes experience;
\* checkpoint 5 sets security_defeated in that round, checkpoint 3's
\* handleCombat sets no quest flag.
C10_KillAwardsExpOnce ==
    [][/\ KillRound =>
             /\ player'.experience =
                    player.experience + (IF cp = 3 THEN WinExp3 ELSE WinExp5)
             /\ pc' = "returned"
             /\ cp = 5 => HasQuestFlag(player', DefeatedFlag)
             /\ cp = 3 => player'.questFlags = player.questFlags
       /\ ~KillRound => player'.experience = player.experience]_vars

C10_Witness ==
    /\ cp = 5
    /\ pc = "returned"
    /\ rounds > 0
    /\ ~IsAlive(enemy)
    /\ HasQuestFlag(player, DefeatedFlag)
    /\ player.experience = 5 + WinExp5

\* The step is a checkpoint 3 round in which the enemy's retaliation brings
\* the proxy to 0.
LossRound3 ==
    cp = 3 /\ pc = "loop" /\ IsAlive(playerCombat) /\ ~IsAlive(playerCombat')

\* C11: in checkpoint 3's handleCombat, a round in which the enemy's
\* retaliation brings the proxy's health to 0 ends the encounter at once,
\* lowers the overworld player's health by exactly 50, clamped at 0, and
\* awards no experience; nothing else of the player changes.
C11_LossAppliesPenalty ==
    [][LossRound3 =>
          /\ pc' = "returned"
          /\ player'.health.current = Max(0, player.health.current - 50)
          /\ player'.experience = player.experience
          /\ player' = [player EXCEPT !.health.current = player'.health.current]
          /\ IsAlive(enemy')]_vars

\* The third lost encounter against the same enemy: the overworld health was
\* already 0 and stays there.
C11_Witness ==
    /\ cp = 3
    /\ pc = "returned"
    /\ playerCombat.health = 0
    /\ enemy.health \in 1 .. 3
    /\ player.health.current = 0
    /\ player.experience = 0

\* C20: a step of handleCombat (checkpoints 3 and 5) leaves currentLocation,
\* every location's item list, gameOver, hasEscaped, the quests and the
\* player's inventory as they were; of the player it changes only the quest
\* flags, the experience and, in the loss branch of checkpoint 3 only, the
\* health; of the fought enemy it changes only the health.
C20_CombatFrame ==
    [][/\ game' = game
       /\ quest' = quest
       /\ player'.inventory = player.inventory
       /\ player' = [player EXCEPT !.questFlags = player'.questFlags,
                                   !.experience = player'.experience,
                                   !.health = player'.health]
       /\ player'.health # player.health => LossRound3
       /\ enemy' = [enemy EXCEPT !.health = enemy'.health]]_vars

\* A won checkpoint 5 encounter in which the EMP choice was taken: the EMP
\* Device is still in the inventory and the Game is as handleCombat found it.
C20_Witness ==
    /\ cp = 5
    /\ pc = "returned"
    /\ ~IsAlive(enemy)
    /\ locals.choice = 2
    /\ player.inventory = <<"EMP Device">>
    /\ HasQuestFlag(player, DefeatedFlag)
    /\ game = GameInCombat(5, <<"EMP Device">>)

----------------------------------------------------------------------------
(* CombatEntity and CombatPlayer as units: the object under test is the one *)
(* the call log names.                                                     *)

\* Enemy objects for the unit calls: those of both checkpoints, the test
\* enemy, and one with a negative defense.
UnitEnemies ==
    InitializeEnemies(3) \cup InitializeEnemies(5) \cup TestEnemies
        \cup {Enemy("Decoy", 12, 0, -2)}

ExpAmounts == {-50, 50, 150, 1000}

DamageArgs == -2 .. MaxDamage

EnemyTakeDamage(d) ==
    /\ call.op \in {"new Enemy", "Enemy::takeDamage"}
    /\ enemy' = TakeDamage(enemy, d)
    /\ call' = [op |-> "Enemy::takeDamage", index |-> 0, arg |-> d]
    /\ UNCHANGED <<cp, pc, playerCombat, player, locals, rounds, quest, updated, game, prog>>

ProxyTakeDamage(d) ==
    /\ call.op \in {"new CombatPlayer", "CombatPlayer::takeDamage",
                    "CombatPlayer::gainExperience"}
    /\ playerCombat' = TakeDamage(playerCombat, d)
    /\ call' = [op |-> "CombatPlayer::takeDamage", index |-> 0, arg |-> d]
    /\ UNCHANGED <<cp, pc, enemy, player, locals, rounds, quest, updated, game, prog>>

ProxyGainExperience(e) ==
    /\ call.op \in {"new CombatPlayer", "CombatPlayer::takeDamage",
                    "CombatPlayer::gainExperience"}
    /\ playerCombat.level < MaxLevel
    /\ playerCombat.experience >= 0
    /\ playerCombat' = GainExperience(playerCombat, e)
    /\ call' = [op |-> "CombatPlayer::gainExperience", index |-> 0, arg |-> e]
    /\ UNCHANGED <<cp, pc, enemy, player, locals, rounds, quest, updated, game, prog>>

InitEntity ==
    /\ cp = 5
    /\ pc = "idle"
    /\ \/ /\ enemy \in UnitEnemies
          /\ call = [op |-> "new Enemy", index |-> 0, arg |-> 0]
       \/ /\ enemy = SecurityBot
          /\ call = [op |-> "new CombatPlayer", index |-> 0, arg |-> 0]
    /\ playerCombat = CombatPlayer
    /\ player = Player(<<>>)
    /\ locals = NoLocals
    /\ rounds = 0
    /\ quest = EmptyQuest
    /\ updated = {}
    /\ game = NewGame(5)
    /\ prog = NoProg

NextEntity ==
    \/ \E d \in DamageArgs : EnemyTakeDamage(d)
    \/ \E d \in DamageArgs : ProxyTakeDamage(d)
    \/ \E e \in ExpAmounts : ProxyGainExperience(e)

SpecEntity == InitEntity /\ [][NextEntity]_vars

\* What the claim says takeDamage(d) does to an entity e, giving e2.
DamageRelation(e, e2, d) ==
    LET h == e.health
        f == e.defense
    IN  /\ e2.health = (IF d <= f THEN h
                        ELSE IF h <= d - f THEN 0
                        ELSE h - (d - f))
        /\ e2.health >= 0
        /\ e2.health <= h
        /\ (h = 50 /\ f = 3 /\ d = 8) => e2.health = 45
        /\ e2.attack = e.attack /\ e2.defense = e.defense

\* C4: takeDamage(d) on an entity with health h >= 0 and defense f leaves
\* health max(0, h - max(0, d - f)): never below 0, never above h, and
\* Enemy(50, defense 3) hit by 8 ends at 45.
C4_TakeDamageClamps ==
    [][/\ call'.op = "Enemy::takeDamage" =>
              DamageRelation(enemy, enemy', call'.arg)
       /\ call'.op = "CombatPlayer::takeDamage" =>
              DamageRelation(playerCombat, playerCombat', call'.arg)]_vars

C4_Witness ==
    /\ call = [op |-> "Enemy::takeDamage", index |-> 0, arg |-> 8]
    /\ enemy = [SecurityBot EXCEPT !.health = 45]

\* takeDamage(d) took e to e2 as takeDamage(max(d, 0)) would have, and a
\* negative d left the health as it was.
SameAsClampedDamage(e, e2, d) ==
    /\ e2.health = Max(0, e.health - Max(0, Max(d, 0) - e.defense))
    /\ d < 0 => e2.health = e.health

\* C18 (as claimed): for every CombatEntity, whatever its defense, and every
\* integer d, takeDamage(d) leaves the health that takeDamage(max(d, 0))
\* leaves, and a negative d leaves the health unchanged.
C18_NegativeDamageIsNoDamage ==
    [][/\ call'.op = "Enemy::takeDamage" =>
              SameAsClampedDamage(enemy, enemy', call'.arg)
       /\ call'.op = "CombatPlayer::takeDamage" =>
              SameAsClampedDamage(playerCombat, playerCombat', call'.arg)]_vars

\* C18 (amended): for every CombatEntity with defense >= 0 and every integer
\* d, takeDamage(d) leaves the health that takeDamage(max(d, 0)) leaves, and
\* a negative d leaves the health unchanged; with a negative defense f, a
\* negative d above f still lowers the health, by d - f (floored at 0).
C18_NegativeDamageAbsorbedByDefense ==
    [][/\ (call'.op = "Enemy::takeDamage" /\ enemy.defense >= 0) =>
              SameAsClampedDamage(enemy, enemy', call'.arg)
       /\ (call'.op = "Enemy::takeDamage" /\ enemy.defense < 0
               /\ call'.arg < 0 /\ call'.arg > enemy.defense) =>
              enemy'.health = Max(0, enemy.health - (call'.arg - enemy.defense))
       /\ (call'.op = "CombatPlayer::takeDamage"
               /\ playerCombat.defense >= 0) =>
              SameAsClampedDamage(playerCombat, playerCombat', call'.arg)]_vars

\* A negative damage on the Security Bot, after a hit of 8 had brought it
\* to 45.
C18_Witness ==
    /\ call = [op |-> "Enemy::takeDamage", index |-> 0, arg |-> -2]
    /\ enemy = [SecurityBot EXCEPT !.health = 45]

\* C5: gainExperience(e) at level L with experience x: if x + e >= L*100 it
\* levels up exactly once (level L+1, health +10, attack +5, defense +3,
\* experience 0, nothing carried over); otherwise only experience changes,
\* to x + e.
C5_SingleLevelUp ==
    [][call'.op = "CombatPlayer::gainExperience" =>
          LET x == playerCombat.experience
              L == playerCombat.level
              e == call'.arg
          IN  IF x + e >= L * 100
              THEN playerCombat' =
                       [playerCombat EXCEPT !.level = L + 1,
                                            !.health = @ + 10,
                                            !.attack = @ + 5,
                                            !.defense = @ + 3,
                                            !.experience = 0]
              ELSE playerCombat' = [playerCombat EXCEPT !.experience = x + e]]_vars

C5_Witness ==
    /\ call = [op |-> "CombatPlayer::gainExperience", index |-> 0, arg |-> 150]
    /\ playerCombat = [CombatPlayer EXCEPT !.level = 2, !.health = 110,
                                           !.attack = 20, !.defense = 8]

----------------------------------------------------------------------------
(* Stat<int> and Character as units: the Stat under test is the health of  *)
(* a Character built with any initial health.                              *)

MaxInitial == 20         \* largest initial value of the Stat under test

StatInitials == {-1, 0, 1, MaxInitial}

StatAmounts == -MaxDamage .. MaxDamage

StatModifyCall(d) ==
    /\ cp # 1
    /\ player' = [player EXCEPT !.health = StatModify(@, d)]
    /\ call' = [op |-> "Stat::modify", index |-> 0, arg |-> d]
    /\ prog' = [prog EXCEPT !.report = "none", !.thrown = "none"]
    /\ UNCHANGED <<cp, pc, enemy, playerCombat, locals, rounds, quest, updated,
                   game>>

CharacterTakeDamageCall(d) ==
    /\ player' = CharacterTakeDamage(player, d)
    /\ call' = [op |-> "Character::takeDamage", index |-> 0, arg |-> d]
    /\ prog' = [prog EXCEPT !.report = TakeDamageError(cp, d).report,
                            !.thrown = TakeDamageError(cp, d).thrown]
    /\ UNCHANGED <<cp, pc, enemy, playerCombat, locals, rounds, quest, updated,
                   game>>

InitCharacter ==
    /\ cp \in {1, 2, 3, 5}
    /\ pc = "idle"
    /\ enemy = SecurityBot
    /\ playerCombat = CombatPlayer
    /\ \E h \in StatInitials : player = [Player(<<>>) EXCEPT !.health = Stat(h)]
    /\ locals = NoLocals
    /\ rounds = 0
    /\ quest = EmptyQuest
    /\ updated = {}
    /\ call = [op |-> "new Character", index |-> 0, arg |-> 0]
    /\ game = NewGame(cp)
    /\ prog = NoProg

NextCharacter ==
    \/ \E d \in StatAmounts : StatModifyCall(d)
    \/ \E d \in DamageArgs : CharacterTakeDamageCall(d)

SpecCharacter == InitCharacter /\ [][NextCharacter]_vars

\* C17: for a Stat constructed with a non-negative initial value (its
\* maximum, which no call changes), 0 <= current <= maximum holds after any
\* sequence of modify calls, and modify(d) sets current to current + d
\* clamped into [0, maximum].
C17_StatStaysInRange ==
    /\ [](player.health.maximum >= 0 =>
              (0 <= player.health.current
                  /\ player.health.current <= player.health.maximum))
    /\ [][/\ player'.health.maximum = player.health.maximum
          /\ (call'.op = "Stat::modify" /\ player.health.maximum >= 0) =>
                 player'.health.current =
                     (IF player.health.current + call'.arg < 0 THEN 0
                      ELSE IF player.health.current + call'.arg
                                  > player.health.maximum
                           THEN player.health.maximum
                      ELSE player.health.current + call'.arg)]_vars

\* modify was clamped at the floor: current was 5, modify(-7) left 0.
C17_Witness ==
    /\ call = [op |-> "Stat::modify", index |-> 0, arg |-> -7]
    /\ player.health = [current |-> 0, maximum |-> MaxInitial]

\* C19: in checkpoints 2, 3 and 5, takeDamage(d) with d < 0 prints the error
\* to std::cerr, throws nothing to its caller and leaves the character
\* (health, energy and the rest) as it was.
C19_NegativeDamageAbsorbed ==
    [][(cp \in {2, 3, 5} /\ call'.op = "Character::takeDamage"
           /\ call'.arg < 0) =>
          /\ prog'.report = "Error in takeDamage: Damage cannot be negative!"
          /\ prog'.thrown = "none"
          /\ player'.health = player.health
          /\ player'.energy = player.energy
          /\ player' = player]_vars

\* A negative damage on a character that an earlier takeDamage(8) had
\* brought from 20 to 12.
C19_Witness ==
    /\ cp = 3
    /\ call = [op |-> "Character::takeDamage", index |-> 0, arg |-> -1]
    /\ player.health = [current |-> 12, maximum |-> MaxInitial]
    /\ prog.thrown = "none"
    /\ prog.report # "none"

----------------------------------------------------------------------------
(* QuestObjective<int> and Quest *)

QuestObjective(targetValue) ==
    [target |-> targetValue, current |-> 0, completed |-> FALSE]

UpdateProgress(o, value) ==
    [o EXCEPT !.current = value, !.completed = (value >= o.target)]

AddObjective(q, target) ==
    [q EXCEPT !.objectives = Append(@, QuestObjective(target))]

CheckCompletionAnyOf(q) ==
    [q EXCEPT !.completed =
        \E i \in 1 .. Len(q.objectives) : q.objectives[i].completed]

CheckCompletionStale(q) == q

\* std::all_of over the objectives
CheckCompletion(q) ==
    [q EXCEPT !.completed =
        \A i \in 1 .. Len(q.objectives) : q.objectives[i].completed]

UpdateObjectiveAll(q, index, value) ==
    IF index < Len(q.objectives)
    THEN CheckCompletion(
             [q EXCEPT !.objectives =
                 [i \in 1 .. Len(@) |-> UpdateProgress(@[i], value)]])
    ELSE q

\* index is the 0-based size_t index of the source
UpdateObjective(q, index, value) ==
    IF index < Len(q.objectives)
    THEN CheckCompletion(
             [q EXCEPT !.objectives[index + 1] = UpdateProgress(@, value)])
    ELSE q

ObjectiveValues == -1 .. MaxValue

AddObjectiveCall(target) ==
    /\ Len(quest.objectives) < MaxObjectives
    /\ quest' = AddObjective(quest, target)
    /\ call' = [op |-> "addObjective", index |-> 0, arg |-> target]
    /\ UNCHANGED <<cp, pc, enemy, playerCombat, player, locals, rounds, updated, game, prog>>

UpdateObjectiveCall(index, value) ==
    /\ quest' = UpdateObjective(quest, index, value)
    /\ updated' = IF index < Len(quest.objectives)
                  THEN updated \cup {index} ELSE updated
    /\ call' = [op |-> "updateObjective", index |-> index, arg |-> value]
    /\ UNCHANGED <<cp, pc, enemy, playerCombat, player, locals, rounds, game, prog>>

InitQuest ==
    /\ cp = 5
    /\ pc = "idle"
    /\ enemy = SecurityBot
    /\ playerCombat = CombatPlayer
    /\ player = Player(<<>>)
    /\ locals = NoLocals
    /\ rounds = 0
    /\ quest = EmptyQuest
    /\ updated = {}
    /\ call = NoCall
    /\ game = NewGame(5)
    /\ prog = NoProg

NextQuest ==
    \/ \E target \in ObjectiveValues : AddObjectiveCall(target)
    \/ \E index \in 0 .. MaxObjectives, value \in ObjectiveValues :
           UpdateObjectiveCall(index, value)

SpecQuest == InitQuest /\ [][NextQuest]_vars

\* The conjunction of isCompleted() over the objectives of the quest.
AllObjectivesCompleted ==
    \A i \in 1 .. Len(quest.objectives) : quest.objectives[i].completed

\* Every objective has current >= target.
AllThresholdsMet ==
    \A i \in 1 .. Len(quest.objectives) :
        quest.objectives[i].current >= quest.objectives[i].target

\* C6 (as claimed): in every state of a Quest, isCompleted() equals the
\* conjunction of isCompleted() over its objectives.
C6_CompletedIsConjunction == quest.completed = AllObjectivesCompleted

\* C6 (amended): right after an updateObjective call with a valid index,
\* isCompleted() equals the conjunction over the objectives; the constructor
\* sets it to false and addObjective leaves it as it was.
C6_CompletedRecomputedOnUpdate ==
    /\ [](/\ (call.op = "updateObjective"
                 /\ call.index < Len(quest.objectives))
              => quest.completed = AllObjectivesCompleted
          /\ call.op = "none" => ~quest.completed)
    /\ [][call'.op = "addObjective" => quest'.completed = quest.completed]_vars

C6_Witness ==
    /\ call.op = "updateObjective"
    /\ call.index < Len(quest.objectives)
    /\ Len(quest.objectives) = 2
    /\ quest.completed
    /\ AllObjectivesCompleted

\* C7 (as claimed): in every state of a QuestObjective, a freshly constructed
\* one with any target included, completed is true exactly when
\* current >= target.
C7_CompletedIffThresholdMet ==
    \A i \in 1 .. Len(quest.objectives) :
        quest.objectives[i].completed <=>
            (quest.objectives[i].current >= quest.objectives[i].target)

\* C8: for a quest with at least one objective, once updateObjective calls
\* have brought every objective to current >= target the quest is completed,
\* and it is still completed after any further update that keeps the updated
\* objective at or above its target.
C8_CompletionMonotone ==
    (/\ Len(quest.objectives) >= 1
     /\ updated = 0 .. Len(quest.objectives) - 1
     /\ AllThresholdsMet)
        => quest.completed

C8_Witness ==
    /\ Len(quest.objectives) = 2
    /\ updated = {0, 1}
    /\ AllThresholdsMet
    /\ quest.completed
    /\ call.op = "updateObjective"
    /\ call.index = 0
    /\ quest.objectives[1].current > quest.objectives[1].target
    /\ quest.objectives[1].target > 0

----------------------------------------------------------------------------
(* Game::run: what each menu option does to the Game, the Player and the   *)
(* quest.  A world is the three of them together.                          *)

World(g, p, q) == [game |-> g, player |-> p, quest |-> q]

\* initializeQuests of checkpoints 3 and 5: one quest, three objectives of
\* target 1
InitializeQuests(c) ==
    IF c \in {3, 5}
    THEN AddObjective(AddObjective(AddObjective(EmptyQuest, 1), 1), 1)
    ELSE EmptyQuest

MenuOptionWithUse(c, choice) ==
    CASE c = 1 ->
           (CASE choice \in {1, 2} -> "view"
              [] choice = 3 -> "move"
              [] choice = 4 -> "interact"
              [] choice = 5 -> "quit"
              [] OTHER -> "invalid")
      [] c = 2 ->
           (CASE choice \in {1, 2} -> "view"
              [] choice = 3 -> "move"
              [] choice = 4 -> "interact"
              [] choice = 5 -> "pickup"
              [] choice = 6 -> "use"
              [] choice = 7 -> "quit"
              [] OTHER -> "invalid")
      [] c = 3 ->
           (CASE choice \in {1, 2, 7} -> "view"
              [] choice = 3 -> "move"
              [] choice = 4 -> "interact"
              [] choice = 5 -> "pickup"
              [] choice = 6 -> "use"
              [] choice = 8 -> "quit"
              [] OTHER -> "invalid")
      [] OTHER ->
           (CASE choice = 1 -> "move"
              [] choice = 2 -> "interact"
              [] choice = 3 -> "pickup"
              [] choice \in {4, 5} -> "view"
              [] choice = 6 -> "quit"
              [] choice = 7 -> "use"
              [] OTHER -> "invalid")

\* The options of the main menu, by checkpoint.
MenuOption(c, choice) ==
    CASE c = 1 ->
           (CASE choice \in {1, 2} -> "view"
              [] choice = 3 -> "move"
              [] choice = 4 -> "interact"
              [] choice = 5 -> "quit"
              [] OTHER -> "invalid")
      [] c = 2 ->
           (CASE choice \in {1, 2} -> "view"
              [] choice = 3 -> "move"
              [] choice = 4 -> "interact"
              [] choice = 5 -> "pickup"
              [] choice = 6 -> "use"
              [] choice = 7 -> "quit"
              [] OTHER -> "invalid")
      [] c = 3 ->
           (CASE choice \in {1, 2, 7} -> "view"
              [] choice = 3 -> "move"
              [] choice = 4 -> "interact"
              [] choice = 5 -> "pickup"
              [] choice = 6 -> "use"
              [] choice = 8 -> "quit"
              [] OTHER -> "invalid")
      [] OTHER ->
           (CASE choice = 1 -> "move"
              [] choice = 2 -> "interact"
              [] choice = 3 -> "pickup"
              [] choice \in {4, 5} -> "view"
              [] choice = 6 -> "quit"
              [] OTHER -> "invalid")

\* getAvailableInteractions of location l, in addInteraction order
Interactions(c, l) ==
    CASE c = 5 ->
           (CASE l = 0 -> <<"examine workbench">>
              [] l = 1 -> <<"hack terminal", "examine terminal">>
              [] l = 2 -> <<"examine security">>
              [] OTHER -> <<"check airlock", "activate airlock">>)
      [] c \in {2, 3} ->
           (CASE l = 0 -> <<"examine tools", "check workbench",
                            "look under desk">>
              [] l = 1 -> <<"talk to computer", "examine terminal",
                            "check cables">>
                              \o (IF c = 3 THEN <<"hack terminal">> ELSE <<>>)
              [] l = 2 -> <<"touch monolith", "examine base",
                            "walk around monolith">>
              [] OTHER -> <<"check airlock controls", "examine window",
                            "inspect emergency gear">>)
      [] OTHER ->
           (CASE l = 0 -> <<"examine tools">>
              [] l = 1 -> <<"talk to computer">>
              [] l = 2 -> <<"touch monolith">>
              [] OTHER -> <<"check supplies">>)

\* Lines the player of checkpoint 1 can type at the interaction prompt.
TypedActions ==
    <<"examine tools", "talk to computer", "touch monolith", "check supplies",
      "open door">>

IncrementSteps(p) == [p EXCEPT !.totalSteps = @ + 1]

MoveToCountsEveryInput(c, w, loc) ==
    IF loc >= 1 /\ loc <= 4
    THEN LET g1 == [w.game EXCEPT !.currentLocation = loc - 1]
         IN  CASE c = 1 ->
                    [w EXCEPT !.game =
                        IF loc - 1 = 1 /\ ~g1.hasAIAccess
                        THEN [g1 EXCEPT !.hasAIAccess = TRUE] ELSE g1]
               [] c = 5 ->
                    [w EXCEPT !.game = g1, !.player = IncrementSteps(@)]
               [] OTHER ->
                    [w EXCEPT !.game = g1,
                              !.player = PlayerGainExperience(
                                             IncrementSteps(@), 5)]
    ELSE [w EXCEPT !.player = IncrementSteps(@)]

\* case "Move to another location" with input loc
MoveTo(c, w, loc) ==
    IF loc >= 1 /\ loc <= 4
    THEN LET g1 == [w.game EXCEPT !.currentLocation = loc - 1]
         IN  CASE c = 1 ->
                    [w EXCEPT !.game =
                        IF loc - 1 = 1 /\ ~g1.hasAIAccess
                        THEN [g1 EXCEPT !.hasAIAccess = TRUE] ELSE g1]
               [] c = 5 ->
                    [w EXCEPT !.game = g1, !.player = IncrementSteps(@)]
               [] OTHER ->
                    [w EXCEPT !.game = g1,
                              !.player = PlayerGainExperience(
                                             IncrementSteps(@), 5)]
    ELSE w

InteractEffectNoFlagTest(c, w, action) ==
    CASE c = 1 ->
           IF action = "touch monolith" /\ ~w.game.hasMonolith
           THEN [w EXCEPT !.game.hasMonolith = TRUE,
                          !.player.inventory =
                              Append(@, "Monolith Knowledge")]
           ELSE w
      [] c = 5 ->
           IF action = "hack terminal"
           THEN [w EXCEPT !.player = SetQuestFlag(@, "terminal_hacked")]
           ELSE IF action = "activate airlock"
           THEN [w EXCEPT !.player = SetQuestFlag(@, "airlock_escaped"),
                          !.game.hasEscaped = TRUE,
                          !.game.gameOver = TRUE]
           ELSE w
      [] OTHER ->
           LET w1 == [w EXCEPT !.player.discovered = @ \cup {action}]
           IN  IF action = "touch monolith"
               THEN [w1 EXCEPT !.player = PlayerGainExperience(
                                   SetQuestFlag(@, "touched_monolith"), 20)]
               ELSE IF action \in {"examine tools", "look under desk"}
               THEN [w1 EXCEPT !.player = PlayerGainExperience(@, 10)]
               ELSE IF /\ action = "inspect emergency gear"
                       /\ ~HasQuestFlag(w1.player, "found_spacesuit")
               THEN [w1 EXCEPT !.player = PlayerGainExperience(
                                   SetQuestFlag(@, "found_spacesuit"), 15)]
               ELSE w1

\* The special effects of an interaction, handleCombat excepted.
InteractEffect(c, w, action) ==
    CASE c = 1 ->
           IF action = "touch monolith" /\ ~w.game.hasMonolith
           THEN [w EXCEPT !.game.hasMonolith = TRUE,
                          !.player.inventory =
                              Append(@, "Monolith Knowledge")]
           ELSE w
      [] c = 5 ->
           IF action = "hack terminal"
           THEN [w EXCEPT !.player = SetQuestFlag(@, "terminal_hacked")]
           ELSE IF /\ action = "activate airlock"
                   /\ HasQuestFlag(w.player, "terminal_hacked")
                   /\ HasQuestFlag(w.player, "security_defeated")
           THEN [w EXCEPT !.player = SetQuestFlag(@, "airlock_escaped"),
                          !.game.hasEscaped = TRUE,
                          !.game.gameOver = TRUE]
           ELSE w
      [] OTHER ->
           LET w1 == [w EXCEPT !.player.discovered = @ \cup {action}]
           IN  IF action = "touch monolith"
               THEN [w1 EXCEPT !.player = PlayerGainExperience(
                                   SetQuestFlag(@, "touched_monolith"), 20)]
               ELSE IF action \in {"examine tools", "look under desk"}
               THEN [w1 EXCEPT !.player = PlayerGainExperience(@, 10)]
               ELSE IF /\ action = "inspect emergency gear"
                       /\ ~HasQuestFlag(w1.player, "found_spacesuit")
               THEN [w1 EXCEPT !.player = PlayerGainExperience(
                                   SetQuestFlag(@, "found_spacesuit"), 15)]
               ELSE w1

\* case "Interact with environment" with input i: an index into the list of
\* the current location (checkpoints 2, 3, 5) or into the lines that can be
\* typed (checkpoint 1, where the effect does not depend on the location).
Interact(c, w, i) ==
    IF c = 1
    THEN IF i >= 1 /\ i <= Len(TypedActions)
         THEN InteractEffect(c, w, TypedActions[i]) ELSE w
    ELSE LET available == Interactions(c, w.game.currentLocation)
         IN  IF i >= 1 /\ i <= Len(available)
             THEN InteractEffect(c, w, available[i]) ELSE w

PickupItemUncounted(w, i) ==
    LET l == w.game.currentLocation
        items == w.game.items[l]
    IN  IF items # <<>> /\ i > 0 /\ i <= Len(items)
        THEN [w EXCEPT
                 !.player = PlayerGainExperience(
                     [@ EXCEPT !.inventory = Append(@, items[i])], 5),
                 !.game.items[l] = RemoveItem(@, items[i])]
        ELSE w

\* Game::pickupItem with input i
PickupItem(w, i) ==
    LET l == w.game.currentLocation
        items == w.game.items[l]
    IN  IF items # <<>> /\ i > 0 /\ i <= Len(items)
        THEN [w EXCEPT
                 !.player = PlayerGainExperience(
                     [@ EXCEPT !.inventory = Append(@, items[i]),
                               !.itemsCollected = @ + 1], 5),
                 !.game.items[l] = RemoveItem(@, items[i])]
        ELSE w

ClassifiedInfoFlagMisspelt == "read_classified_data"

\* The flag that the Datapad's use effect sets.
ClassifiedInfoFlag == "read_classified_info"

\* Item::use: the effect that initializeLocations attached to the item
UseEffect(c, w, item) ==
    LET l == w.game.currentLocation
    IN  IF c = 5
        THEN CASE item = "Datapad" ->
                    [w EXCEPT !.player = PlayerGainExperience(
                         SetQuestFlag(@, ClassifiedInfoFlag), 20)]
               [] item = "Keycard" /\ l = 1 ->
                    [w EXCEPT !.player = PlayerGainExperience(
                         SetQuestFlag(@, "terminal_access_granted"), 15)]
               [] item = "Spacesuit" /\ l = 3 ->
                    [w EXCEPT !.player = PlayerGainExperience(
                         SetQuestFlag(@, "spacesuit_equipped"), 10)]
               [] OTHER -> w
        ELSE CASE item = "Datapad" ->
                    [w EXCEPT !.player =
                         SetQuestFlag(@, ClassifiedInfoFlag)]
               [] item = "Keycard" /\ l = 1 ->
                    [w EXCEPT !.player = PlayerGainExperience(@, 15)]
               [] item = "Spacesuit" /\ l = 3 ->
                    [w EXCEPT !.player =
                         SetQuestFlag(@, "spacesuit_equipped")]
               [] OTHER -> w

\* case "Use item" of checkpoints 2 and 3 with input i
UseItem(c, w, i) ==
    LET inventory == w.player.inventory
    IN  IF inventory # <<>> /\ i >= 1 /\ i <= Len(inventory)
        THEN LET w1 == UseEffect(c, w, inventory[i])
             IN  [w1 EXCEPT !.player = PlayerGainExperience(@, 10)]
        ELSE w

\* case "Quit": checkpoints 2 and 3 ask for a confirmation (confirm = 1 is
\* the answer y), checkpoint 5 sets gameOver, checkpoint 1 returns from run.
Quit(c, w, confirm) ==
    IF c = 5 \/ (c \in {2, 3} /\ confirm = 1)
    THEN [w EXCEPT !.game.gameOver = TRUE]
    ELSE w

AllThreeFlags(p) ==
    /\ HasQuestFlag(p, "read_classified_info")
    /\ HasQuestFlag(p, "touched_monolith")
    /\ HasQuestFlag(p, "spacesuit_equipped")

\* Game::checkWinCondition of checkpoint 5
CheckWinCondition(p) ==
    /\ HasQuestFlag(p, "read_classified_info")
    /\ HasQuestFlag(p, "security_defeated")
    /\ HasQuestFlag(p, "spacesuit_equipped")

CombatDueWithoutHackAttempt(c, w) ==
    /\ w.game.currentLocation = 1
    /\ \/ /\ c = 3
          /\ ~HasQuestFlag(w.player, "combat_complete")
       \/ /\ c = 5
          /\ HasQuestFlag(w.player, "terminal_access_granted")
          /\ ~HasQuestFlag(w.player, "security_defeated")

\* The "special interaction handling" test that calls handleCombat after
\* the switch.
CombatDue(c, w) ==
    /\ w.game.currentLocation = 1
    /\ \/ /\ c = 3
          /\ HasQuestFlag(w.player, "hack_attempt")
          /\ ~HasQuestFlag(w.player, "combat_complete")
       \/ /\ c = 5
          /\ HasQuestFlag(w.player, "terminal_access_granted")
          /\ ~HasQuestFlag(w.player, "security_defeated")

PostChecksEveryTurn(c, w, fought) ==
    CASE c = 2 ->
           IF AllThreeFlags(w.player)
           THEN [w EXCEPT !.game.chapter = @ + 1,
                          !.player = PlayerGainExperience(@, 50)]
           ELSE w
      [] c = 3 ->
           LET w1 == IF fought
                     THEN [w EXCEPT !.player =
                              SetQuestFlag(@, "combat_complete")]
                     ELSE w
           IN  IF AllThreeFlags(w1.player)
               THEN [w1 EXCEPT !.quest = UpdateObjective(@, 0, 1)]
               ELSE w1
      [] c = 5 ->
           LET w1 == IF /\ w.game.currentLocation = 3
                        /\ HasQuestFlag(w.player, "security_defeated")
                        /\ HasQuestFlag(w.player, "spacesuit_equipped")
                     THEN [w EXCEPT !.game.hasEscaped = TRUE,
                                    !.game.gameOver = TRUE]
                     ELSE w
           IN  IF AllThreeFlags(w1.player)
               THEN [w1 EXCEPT !.quest = UpdateObjective(@, 0, 1)]
               ELSE w1
      [] OTHER -> w

\* The rest of the loop body after the switch and after that handleCombat
\* call (fought: the call was made).
PostChecks(c, w, fought) ==
    CASE c = 2 ->
           IF AllThreeFlags(w.player) /\ w.game.chapter = 1
           THEN [w EXCEPT !.game.chapter = @ + 1,
                          !.player = PlayerGainExperience(@, 50)]
           ELSE w
      [] c = 3 ->
           LET w1 == IF fought
                     THEN [w EXCEPT !.player =
                              SetQuestFlag(@, "combat_complete")]
                     ELSE w
           IN  IF AllThreeFlags(w1.player)
               THEN [w1 EXCEPT !.quest = UpdateObjective(@, 0, 1)]
               ELSE w1
      [] c = 5 ->
           LET w1 == IF /\ w.game.currentLocation = 3
                        /\ HasQuestFlag(w.player, "security_defeated")
                        /\ HasQuestFlag(w.player, "spacesuit_equipped")
                     THEN [w EXCEPT !.game.hasEscaped = TRUE,
                                    !.game.gameOver = TRUE]
                     ELSE w
           IN  IF AllThreeFlags(w1.player)
               THEN [w1 EXCEPT !.quest = UpdateObjective(@, 0, 1)]
               ELSE w1
      [] OTHER -> w

\* The loop test of run.
LoopContinues(c, g) ==
    CASE c = 1 -> TRUE
      [] c = 5 -> ~g.gameOver /\ ~g.hasEscaped
      [] OTHER -> ~g.gameOver

----------------------------------------------------------------------------
(* main, the Game constructor and the loop of Game::run.  One step is one   *)
(* iteration of the loop: the switch on the menu input, the checks after   *)
(* it and the loop test.  A handleCombat call that finds both fighters     *)
(* alive interrupts the iteration: its rounds are steps of their own, and  *)
(* AfterCombat runs the rest of the iteration.                             *)

MaxTurns == 3            \* menu inputs read by one run of checkpoints 1-3
MaxTurns5 == 3           \* menu inputs read by one run of checkpoint 5
MaxMenu == 9             \* the menu input is drawn from -1..MaxMenu
MaxArg == 5              \* the second input of an option, from -1..MaxArg

MenuChoices == -1 .. MaxMenu
MenuArgs == -1 .. MaxArg
Names == {"", "Ripley"}

TheWorld == World(game, player, quest)

\* End of an iteration: the loop test, and when the loop is left, the return
\* from run and from main.  The locals of a handleCombat call that returned
\* are gone.
Conclude(w, pr) ==
    /\ game' = w.game
    /\ player' = w.player
    /\ quest' = w.quest
    /\ pc' = "idle"
    /\ prog' = IF LoopContinues(cp, w.game)
               THEN [pr EXCEPT !.phase = "menu", !.after = "none"]
               ELSE [pr EXCEPT !.phase = "exit", !.exitCode = 0,
                               !.after = "none"]
    /\ playerCombat' = CombatPlayer
    /\ locals' = NoLocals
    /\ rounds' = 0

\* handleCombat entered with both fighters alive: the iteration waits for
\* the rounds; after tells where it resumes.
Suspend(w, after, pr) ==
    /\ game' = w.game
    /\ player' = w.player
    /\ quest' = w.quest
    /\ playerCombat' = CombatPlayer
    /\ rounds' = 0
    /\ locals' = NoLocals
    /\ pc' = "loop"
    /\ prog' = [pr EXCEPT !.phase = "combat", !.after = after]

\* From the end of the switch to the end of the iteration.
AfterSwitch(w, pr) ==
    IF CombatDue(cp, w) /\ LoopCondition(enemy, CombatPlayer)
    THEN Suspend(w, "post", pr)
    ELSE Conclude(PostChecks(cp, w, CombatDue(cp, w)), pr)

\* The menu input choice is read and selects an option of this kind; arg is
\* the second input that the option reads (0 when it reads none).
Turn(kind, choice, arg) ==
    /\ prog.phase = "menu"
    /\ prog.turns - prog.replayed < (IF cp = 5 THEN MaxTurns5 ELSE MaxTurns)
    /\ MenuOption(cp, choice) = kind
    /\ call' = [op |-> kind, index |-> 0, arg |-> arg]
    /\ UNCHANGED <<cp, enemy, updated>>

Logged(rep) == [prog EXCEPT !.turns = @ + 1, !.report = rep]

NameRejectedNever(c, name) == FALSE

\* if (playerName.empty()) throw std::invalid_argument(...): checkpoint 1
\* has no such test
NameRejected(c, name) == c \in {2, 3, 5} /\ name = ""

\* Game::Game and the call of run from main.  The constructor rethrows the
\* exception; main catches it and returns 1.
Construct(name) ==
    /\ prog.phase = "start"
    /\ IF NameRejected(cp, name)
       THEN /\ prog' = [prog EXCEPT
                           !.phase = "exit", !.exitCode = 1, !.name = name,
                           !.report = "Fatal error: Name cannot be empty!"]
            /\ UNCHANGED <<game, player, quest>>
       ELSE /\ prog' = [prog EXCEPT !.phase = "menu", !.name = name]
            /\ game' = NewGame(cp)
            /\ player' = Player(<<>>)
            /\ quest' = InitializeQuests(cp)
    /\ call' = [op |-> "Game", index |-> 0, arg |-> 0]
    /\ UNCHANGED <<cp, pc, enemy, playerCombat, locals, rounds, updated>>

View(choice) ==
    /\ Turn("view", choice, 0)
    /\ AfterSwitch(TheWorld, Logged("none"))

Move(choice, loc) ==
    /\ Turn("move", choice, loc)
    /\ AfterSwitch(MoveTo(cp, TheWorld, loc), Logged("none"))

InteractWith(choice, i) ==
    /\ Turn("interact", choice, i)
    /\ LET available == Interactions(cp, game.currentLocation)
           hack == /\ cp = 5 /\ i >= 1 /\ i <= Len(available)
                   /\ available[i] = "hack terminal"
           w1 == Interact(cp, TheWorld, i)
       IN  IF hack /\ LoopCondition(enemy, CombatPlayer)
           THEN Suspend(w1, "switch", Logged("none"))
           ELSE AfterSwitch(w1, Logged("none"))

Pickup(choice, i) ==
    /\ Turn("pickup", choice, i)
    /\ AfterSwitch(PickupItem(TheWorld, i), Logged("none"))

Use(choice, i) ==
    /\ Turn("use", choice, i)
    /\ AfterSwitch(UseItem(cp, TheWorld, i), Logged("none"))

QuitGame(choice, confirm) ==
    /\ Turn("quit", choice, confirm)
    /\ IF cp = 1
       THEN /\ prog' = [Logged("none") EXCEPT !.phase = "exit", !.exitCode = 0]
            /\ UNCHANGED <<game, player, quest, pc, playerCombat, locals,
                           rounds>>
       ELSE AfterSwitch(Quit(cp, TheWorld, confirm), Logged("none"))

\* default: of the switch.  Checkpoint 5 prints and goes on; checkpoints 1, 2
\* and 3 throw std::runtime_error, which the handler around the loop of run
\* catches and prints: run returns and main returns 0.
InvalidChoice(choice) ==
    /\ Turn("invalid", choice, 0)
    /\ IF cp = 5
       THEN AfterSwitch(TheWorld, Logged("Invalid choice."))
       ELSE /\ prog' = [Logged("Error: Invalid choice!") EXCEPT
                           !.phase = "exit", !.exitCode = 0]
            /\ UNCHANGED <<game, player, quest, pc, playerCombat, locals,
                           rounds>>

\* handleCombat has returned: the rest of the interrupted iteration
AfterCombat ==
    /\ prog.phase = "combat"
    /\ pc = "returned"
    /\ IF prog.after = "switch"
       THEN AfterSwitch(TheWorld, prog)
       ELSE Conclude(PostChecks(cp, TheWorld, TRUE), prog)
    /\ UNCHANGED <<cp, enemy, updated, call>>

InitGame ==
    /\ cp \in {1, 2, 3, 5}
    /\ pc = "idle"
    /\ enemy = SecurityBot
    /\ playerCombat = CombatPlayer
    /\ player = Player(<<>>)
    /\ locals = NoLocals
    /\ rounds = 0
    /\ quest = EmptyQuest
    /\ updated = {}
    /\ call = NoCall
    /\ game = NoGame(cp)
    /\ prog = [NoProg EXCEPT !.phase = "start"]

NextGame ==
    \/ \E name \in Names : Construct(name)
    \/ \E choice \in MenuChoices : View(choice)
    \/ \E choice \in MenuChoices, loc \in MenuArgs : Move(choice, loc)
    \/ \E choice \in MenuChoices, i \in MenuArgs : InteractWith(choice, i)
    \/ \E choice \in MenuChoices, i \in MenuArgs : Pickup(choice, i)
    \/ \E choice \in MenuChoices, i \in MenuArgs : Use(choice, i)
    \/ \E choice \in MenuChoices, confirm \in 0 .. 1 : QuitGame(choice, confirm)
    \/ \E choice \in MenuChoices : InvalidChoice(choice)
    \/ \E choice \in 1 .. MaxChoice, roll \in PlayerRolls, eroll \in EnemyRolls :
           Round5(choice, roll, eroll)
    \/ AfterCombat

SpecGame == InitGame /\ [][NextGame]_vars

----------------------------------------------------------------------------
(* The menu loop continued from a state further into the session.  The     *)
(* state is computed by running the loop body on a script of menu inputs   *)
(* from the constructed Game.                                              *)

Input(kind, arg) == [kind |-> kind, arg |-> arg]

\* One iteration of the loop of run that calls no handleCombat: the switch
\* on the option and the checks after it.
Iteration(c, w, in) ==
    PostChecks(c,
               CASE in.kind = "move" -> MoveTo(c, w, in.arg)
                 [] in.kind = "interact" -> Interact(c, w, in.arg)
                 [] in.kind = "pickup" -> PickupItem(w, in.arg)
                 [] in.kind = "use" -> UseItem(c, w, in.arg)
                 [] in.kind = "quit" -> Quit(c, w, in.arg)
                 [] OTHER -> w,
               FALSE)

RECURSIVE Replay(_, _, _)
Replay(c, w, script) ==
    IF script = <<>> THEN w
    ELSE Replay(c, Iteration(c, w, Head(script)), Tail(script))

\* Checkpoints 2 and 3: pick up and use the Datapad, touch the monolith, go
\* to the Airlock and pick up the Spacesuit.  Checkpoint 5: go to the
\* Terminal Room.
Script(c) ==
    IF c = 5
    THEN <<Input("move", 2)>>
    ELSE <<Input("pickup", 1), Input("use", 1), Input("move", 3),
           Input("interact", 1), Input("move", 4), Input("pickup", 1)>>

InitMidGame ==
    /\ cp \in {2, 3, 5}
    /\ pc = "idle"
    /\ enemy = SecurityBot
    /\ playerCombat = CombatPlayer
    /\ locals = NoLocals
    /\ rounds = 0
    /\ updated = {}
    /\ LET w == Replay(cp, World(NewGame(cp), Player(<<>>),
                                 InitializeQuests(cp)), Script(cp))
           last == Script(cp)[Len(Script(cp))]
       IN  /\ game = w.game
           /\ player = w.player
           /\ quest = w.quest
           /\ call = [op |-> last.kind, index |-> 0, arg |-> last.arg]
    /\ prog = [NoProg EXCEPT !.phase = "menu", !.name = "Ripley",
                             !.turns = Len(Script(cp)),
                             !.replayed = Len(Script(cp))]

\* The loop of run: every step of the session but the constructor.
NextLoop ==
    \/ \E choice \in MenuChoices : View(choice)
    \/ \E choice \in MenuChoices, loc \in MenuArgs : Move(choice, loc)
    \/ \E choice \in MenuChoices, i \in MenuArgs : InteractWith(choice, i)
    \/ \E choice \in MenuChoices, i \in MenuArgs : Pickup(choice, i)
    \/ \E choice \in MenuChoices, i \in MenuArgs : Use(choice, i)
    \/ \E choice \in MenuChoices, confirm \in 0 .. 1 : QuitGame(choice, confirm)
    \/ \E choice \in MenuChoices : InvalidChoice(choice)
    \/ \E choice \in 1 .. MaxChoice, roll \in PlayerRolls, eroll \in EnemyRolls :
           Round5(choice, roll, eroll)
    \/ AfterCombat

SpecMidGame == InitMidGame /\ [][NextLoop]_vars

----------------------------------------------------------------------------
(* Properties of the session *)

\* C15 (as claimed): in every checkpoint a menu input outside the offered
\* options is reported and the loop goes on to the next prompt, with the
\* Game (location, item lists) and the player (inventory, quest flags) as
\* they were.
C15_InvalidChoiceIsNonFatal ==
    [][call'.op = "invalid" =>
          /\ prog'.report # "none"
          /\ prog'.phase = "menu"
          /\ game' = game
          /\ player' = player]_vars

\* C16: in checkpoints 2, 3 and 5 an empty player name makes the constructor
\* fail: no Player exists, run is never entered (no menu input is read) and
\* the program has ended with exit code 1; a quit from the menu that ends
\* the loop ends the program with exit code 0.
C16_EmptyNameExitsWithOne ==
    /\ []((cp \in {2, 3, 5} /\ call.op # "none" /\ prog.name = "") =>
              /\ game.player = "null"
              /\ prog.phase = "exit"
              /\ prog.exitCode = 1
              /\ prog.turns = 0
              /\ call.op = "Game")
    /\ [][/\ (cp \in {2, 3, 5} /\ call'.op = "quit" /\ game'.gameOver) =>
                 (prog'.phase = "exit" /\ prog'.exitCode = 0)
          /\ (call'.op = "quit" /\ prog'.phase = "exit") =>
                 prog'.exitCode = 0
          /\ prog.phase = "exit" => prog' = prog]_vars

C16_Witness ==
    /\ cp = 5
    /\ call.op = "Game"
    /\ prog.name = ""
    /\ prog.phase = "exit"
    /\ prog.exitCode = 1
    /\ game.player = "null"

\* C12: a quest flag that hasQuestFlag reports stays reported in every later
\* state of the session: no menu action, item use or combat round clears
\* a flag.
C12_QuestFlagsPersist ==
    [][\A flag \in player.questFlags : HasQuestFlag(player', flag)]_vars

\* Two flags set by different steps (the hack and the kill round) are both
\* still set after a later move.
C12_Witness ==
    /\ cp = 5
    /\ prog.phase = "menu"
    /\ call.op = "move"
    /\ game.currentLocation = 3
    /\ HasQuestFlag(player, "terminal_hacked")
    /\ HasQuestFlag(player, "security_defeated")

\* The items that initializeLocations creates.
ItemNames(c) ==
    UNION {{InitializeLocations(c)[l][i] :
               i \in 1 .. Len(InitializeLocations(c)[l])} : l \in Locations}

\* How many entries of a list name the item.
Occurrences(list, item) ==
    Cardinality({i \in 1 .. Len(list) : list[i] = item})

\* How many entries of the location item lists and of the inventory name
\* the item.
Holders(item) ==
    Occurrences(game.items[0], item) + Occurrences(game.items[1], item)
        + Occurrences(game.items[2], item) + Occurrences(game.items[3], item)
        + Occurrences(player.inventory, item)

\* The list without its i-th entry.
WithoutIndex(list, i) ==
    SubSeq(list, 1, i - 1) \o SubSeq(list, i + 1, Len(list))

\* C13: in checkpoints 2, 3 and 5, once the Game is constructed every item
\* is listed exactly once, at one location or in the inventory; a pickup
\* with a valid index moves exactly the chosen item from the current
\* location's list to the end of the inventory, and any other pickup input
\* moves nothing.
C13_EveryItemHasOneOwner ==
    /\ []((cp \in {2, 3, 5} /\ game.player = "set") =>
              \A item \in ItemNames(cp) : Holders(item) = 1)
    /\ [][(cp \in {2, 3, 5} /\ call'.op = "pickup") =>
              LET l == game.currentLocation
                  i == call'.arg
              IN  IF i >= 1 /\ i <= Len(game.items[l])
                  THEN /\ player'.inventory =
                              Append(player.inventory, game.items[l][i])
                       /\ game'.items =
                              [game.items EXCEPT
                                  ![l] = WithoutIndex(game.items[l], i)]
                  ELSE /\ player'.inventory = player.inventory
                       /\ game'.items = game.items]_vars

\* Checkpoint 3: the second of the two items of the Maintenance Bay was
\* picked up first, then the other one.
C13_Witness ==
    /\ cp = 3
    /\ call.op = "pickup"
    /\ player.inventory = <<"Keycard", "Datapad">>
    /\ game.items[0] = <<>>
    /\ game.items[3] = <<"Spacesuit">>

\* The step is a "Use item" turn of checkpoint 2 or 3 whose input selects
\* this item of the inventory.
UsesItem(item) ==
    /\ cp \in {2, 3}
    /\ call'.op = "use"
    /\ call'.arg >= 1
    /\ call'.arg <= Len(player.inventory)
    /\ player.inventory[call'.arg] = item

\* C14: in checkpoints 2 and 3, using the Datapad (which had to be picked up
\* to be in the inventory) leaves the Maintenance Bay without the Datapad
\* and read_classified_info set, and both stay so in every later state;
\* read_classified_info and spacesuit_equipped only become set in a step
\* that uses the Datapad, respectively the Spacesuit, from the inventory.
C14_DatapadUseSetsFlagForGood ==
    /\ [][UsesItem("Datapad") =>
              /\ HasQuestFlag(player', "read_classified_info")
              /\ Occurrences(game'.items[0], "Datapad") = 0]_vars
    /\ []((cp \in {2, 3} /\ HasQuestFlag(player, "read_classified_info")) =>
              Occurrences(game.items[0], "Datapad") = 0)
    /\ [][(cp \in {2, 3} /\ HasQuestFlag(player, "read_classified_info")) =>
              HasQuestFlag(player', "read_classified_info")]_vars
    /\ [][(/\ cp \in {2, 3}
           /\ ~HasQuestFlag(player, "read_classified_info")
           /\ HasQuestFlag(player', "read_classified_info")) =>
              (UsesItem("Datapad") /\ HasItem(player, "Datapad"))]_vars
    /\ [][(/\ cp \in {2, 3}
           /\ ~HasQuestFlag(player, "spacesuit_equipped")
           /\ HasQuestFlag(player', "spacesuit_equipped")) =>
              (UsesItem("Spacesuit") /\ HasItem(player, "Spacesuit"))]_vars

\* Checkpoint 3: the Datapad was picked up and used, and the player has
\* since moved on to the Monolith Chamber.
C14_Witness ==
    /\ cp = 3
    /\ call.op = "move"
    /\ game.currentLocation = 2
    /\ HasQuestFlag(player, "read_classified_info")
    /\ player.inventory = <<"Datapad">>
    /\ game.items[0] = <<"Keycard">>


\* C21: in every checkpoint currentLocation is always an index 0..3 of the
\* four locations; a move whose location number is in 1..4 goes to that
\* location, and a move with any other number leaves currentLocation and
\* the step counter as they were.
C21_LocationStaysValid ==
    /\ [](game.currentLocation \in Locations)
    /\ [][call'.op = "move" =>
              IF call'.arg >= 1 /\ call'.arg <= 4
              THEN game'.currentLocation = call'.arg - 1
              ELSE /\ game'.currentLocation = game.currentLocation
                   /\ player'.totalSteps = player.totalSteps]_vars

\* Checkpoint 2: after a move to the Monolith Chamber, a move with the
\* number 5 was refused.
C21_Witness ==
    /\ cp = 2
    /\ prog.phase = "menu"
    /\ call.op = "move"
    /\ call.arg = 5
    /\ game.currentLocation = 2
    /\ player.totalSteps = 1

\* C22: in checkpoint 5 an encounter with the Security Bot (health 50,
\* attack 10, defense 3) is over after at most 5 rounds whatever the rolls
\* and the choices are, it ends with the bot at 0 health, and the combat
\* proxy's health never drops below 70: the proxy never dies.
C22_SecurityBotAlwaysLoses ==
    (cp = 5 /\ enemy.name = "Security Bot") =>
        /\ rounds <= 5
        /\ pc = "loop" => rounds <= 4
        /\ playerCombat.health >= 70
        /\ IsAlive(playerCombat)
        /\ pc = "returned" => enemy.health = 0

\* The longest encounter: five rounds of the weakest attack against the
\* strongest retaliation.
C22_Witness ==
    /\ cp = 5
    /\ enemy.name = "Security Bot"
    /\ pc = "returned"
    /\ rounds = 5
    /\ enemy.health = 0
    /\ playerCombat.health = 70

\* C23: in checkpoint 5 the enemy's health never goes up, so once the
\* Security Bot is at 0 health no handleCombat call runs a round; the 50
\* experience of the win are awarded only by the round that brings the bot
\* from above 0 to 0, hence at most once in a session (all other experience
\* is the 5 of each pickup); and security_defeated is set exactly when the
\* bot's health is 0.
C23_BotDefeatedOnce ==
    /\ [][cp = 5 => enemy'.health <= enemy.health]_vars
    /\ []((cp = 5 /\ enemy.health = 0) => pc # "loop")
    /\ [][(cp = 5 /\ enemy.health = 0) => rounds' = 0]_vars
    /\ [][(cp = 5 /\ player'.experience >= player.experience + WinExp5) =>
              (enemy.health > 0 /\ enemy'.health = 0)]_vars
    /\ [](cp = 5 =>
              /\ HasQuestFlag(player, DefeatedFlag) <=> enemy.health = 0
              /\ player.experience =
                     5 * player.itemsCollected
                         + (IF enemy.health = 0 THEN WinExp5 ELSE 0))

\* The terminal was hacked a second time after the bot had been defeated:
\* no round was fought and nothing was awarded.
C23_Witness ==
    /\ cp = 5
    /\ prog.phase = "menu"
    /\ prog.turns = 3
    /\ call.op = "interact"
    /\ call.arg = 1
    /\ game.currentLocation = 1
    /\ enemy.health = 0
    /\ pc = "idle"
    /\ rounds = 0
    /\ player.experience = WinExp5

\* C24: in checkpoint 5, whenever hasEscaped is set, gameOver is set too,
\* the player stands at the Airlock (currentLocation 3) and both
\* terminal_hacked and security_defeated are set: there is no escape before
\* the terminal is hacked and the Security Bot defeated.
C24_EscapeNeedsHackAndVictory ==
    (cp = 5 /\ game.hasEscaped) =>
        /\ game.gameOver
        /\ game.currentLocation = 3
        /\ HasQuestFlag(player, "terminal_hacked")
        /\ HasQuestFlag(player, "security_defeated")

\* The escape: terminal hacked, bot defeated, airlock activated; the loop
\* was left and the program ended.
C24_Witness ==
    /\ cp = 5
    /\ game.hasEscaped
    /\ call.op = "interact"
    /\ call.arg = 2
    /\ enemy.health = 0
    /\ prog.phase = "exit"
    /\ prog.exitCode = 0

\* C25: in checkpoint 5 no menu input sets read_classified_info,
\* terminal_access_granted or spacesuit_equipped (no option uses an item),
\* so checkWinCondition's condition is never true, the combat that
\* terminal_access_granted triggers after the switch never starts, and
\* every escape is the one of "activate airlock", never the one of the
\* spacesuit at the Airlock.
C25_ItemEffectsNeverRun ==
    cp = 5 =>
        /\ ~HasQuestFlag(player, "read_classified_info")
        /\ ~HasQuestFlag(player, "terminal_access_granted")
        /\ ~HasQuestFlag(player, "spacesuit_equipped")
        /\ ~CheckWinCondition(player)
        /\ ~CombatDue(cp, TheWorld)
        /\ prog.after # "post"
        /\ game.hasEscaped => HasQuestFlag(player, "airlock_escaped")

\* The Keycard was picked up in the Terminal Room, where its effect would
\* grant terminal access; the player holds it there and no flag is set.
C25_Witness ==
    /\ cp = 5
    /\ prog.phase = "menu"
    /\ call.op = "view"
    /\ game.currentLocation = 1
    /\ HasItem(player, "Keycard")
    /\ player.questFlags = {}

\* C26: in checkpoint 3 no menu input starts a combat encounter: hack_attempt,
\* the flag that guards the only handleCombat call, is never set, so
\* handleCombat is never entered (the Security Bot keeps its full health)
\* and combat_complete is never set.
C26_NoCombatInCheckpoint3 ==
    cp = 3 =>
        /\ ~HasQuestFlag(player, "hack_attempt")
        /\ ~HasQuestFlag(player, "combat_complete")
        /\ ~CombatDue(cp, TheWorld)
        /\ prog.phase # "combat"
        /\ pc = "idle"
        /\ enemy = SecurityBot

\* The interaction "hack terminal" was chosen in the Terminal Room, and
\* nothing came of it.
C26_Witness ==
    /\ cp = 3
    /\ prog.phase = "menu"
    /\ call.op = "interact"
    /\ call.arg = 4
    /\ game.currentLocation = 1
    /\ "hack terminal" \in player.discovered
    /\ player.questFlags = {}

\* C27: in checkpoints 3 and 5 the main quest has three objectives of target
\* 1 and is never completed: isCompleted() is false in every state, because
\* run only ever updates objective 0 and the other two keep progress 0.
C27_MainQuestNeverCompleted ==
    (cp \in {3, 5} /\ game.player = "set") =>
        /\ ~quest.completed
        /\ Len(quest.objectives) = 3
        /\ \A i \in 1 .. 3 : quest.objectives[i].target = 1
        /\ \A i \in 2 .. 3 :
               /\ quest.objectives[i].current = 0
               /\ ~quest.objectives[i].completed

\* Checkpoint 3: the three flags are set and objective 0 has been updated
\* and is completed; the quest is not.
C27_Witness ==
    /\ cp = 3
    /\ AllThreeFlags(player)
    /\ quest.objectives[1].completed
    /\ quest.objectives[1].current = 1
    /\ ~quest.completed

\* C28: in every checkpoint the overworld player's health is 100 of 100 in
\* every state of a session: no menu action and no round of a combat
\* encounter changes it (the rounds hurt the combat proxy).
C28_PlayerHealthUntouched ==
    /\ player.health.current = 100
    /\ player.health.maximum = 100

\* Checkpoint 5: handleCombat has returned from a fight that cost the proxy
\* at least 20 health, and the player's health is what it was.
C28_Witness ==
    /\ cp = 5
    /\ prog.phase = "combat"
    /\ pc = "returned"
    /\ enemy.health = 0
    /\ playerCombat.health <= 80
    /\ player.health = Stat(100)

\* C29: in checkpoints 2, 3 and 5 the itemsCollected counter always equals
\* the number of items in the inventory; a pickup that is cancelled (input
\* 0), out of range, or made where there is no item changes neither the
\* counter, the inventory, the item lists of the locations nor the
\* experience.
C29_ItemsCollectedCountsInventory ==
    /\ [](cp \in {2, 3, 5} =>
              player.itemsCollected = Len(player.inventory))
    /\ [][(/\ cp \in {2, 3, 5}
           /\ call'.op = "pickup"
           /\ ~(/\ call'.arg >= 1
                /\ call'.arg <= Len(game.items[game.currentLocation]))) =>
              /\ player'.itemsCollected = player.itemsCollected
              /\ player'.inventory = player.inventory
              /\ game'.items = game.items
              /\ player'.experience = player.experience]_vars

\* Checkpoint 2: the Datapad was picked up, then a pickup was cancelled with
\* the Keycard still on offer.
C29_Witness ==
    /\ cp = 2
    /\ call.op = "pickup"
    /\ call.arg = 0
    /\ player.inventory = <<"Datapad">>
    /\ player.itemsCollected = 1
    /\ game.currentLocation = 0
    /\ game.items[0] = <<"Keycard">>

\* C30: in checkpoint 2 chapter is always 1 or 2 and never decreases; at the
\* end of every iteration of the game loop chapter is 2 exactly when
\* read_classified_info, touched_monolith and spacesuit_equipped are all
\* set; and the 50 experience of the chapter bonus are awarded only by the
\* iteration that takes chapter from 1 to 2, hence at most once.
C30_ChapterAdvancesOnce ==
    /\ [](cp = 2 =>
              /\ game.chapter \in {1, 2}
              /\ game.chapter = 2 <=> AllThreeFlags(player))
    /\ [][cp = 2 => game'.chapter >= game.chapter]_vars
    /\ [][(cp = 2 /\ player'.experience >= player.experience + 50) =>
              (game.chapter = 1 /\ game'.chapter = 2)]_vars
    /\ [][(cp = 2 /\ game'.chapter # game.chapter) =>
              player'.experience >= player.experience + 50]_vars

\* The Spacesuit was used at the Airlock (chapter 2, bonus awarded) and then
\* used again: the second use earned its own 10 experience and no bonus.
C30_Witness ==
    /\ cp = 2
    /\ game.chapter = 2
    /\ AllThreeFlags(player)
    /\ prog.turns = 8
    /\ call.op = "use"
    /\ call.arg = 2
    /\ player.experience = 120
====
